---------------------------- MODULE Spec2Model ----------------------------
(***************************************************************************)
(* Model of src/jira_automation.py: the JIRA -> Ollama -> DOCX pipeline.   *)
(*                                                                         *)
(* Python values are tagged records, strings are sequences of characters,  *)
(* a dict is a function on the set of its keys (a key that is not in the   *)
(* DOMAIN is a missing key), an exception is a result whose exc field is   *)
(* not "none".  Every method of JiraToDocxAutomation is an operator built  *)
(* as the code is: the body of its try block, then its except clauses.     *)
(***************************************************************************)
EXTENDS Integers, Sequences, FiniteSets, TLC

\* ------------------------------------------------------------------ bounds
\* Longest issue list a tracker response carries.
MaxIssues == 2
\* Longest text the inference service returns in "response".
MaxStrLen == 3

\* ------------------------------------------------------- string literals
S_Empty == << >>
S_Unknown == <<"U", "n", "k", "n", "o", "w", "n">>
S_NoKey == <<"N", "o", " ", "k", "e", "y">>
S_NoSummary == <<"N", "o", " ", "s", "u", "m", "m", "a", "r", "y">>
S_NoStatus == <<"N", "o", " ", "s", "t", "a", "t", "u", "s">>
S_NA == <<"N", "/", "A">>
S_ErrGenerating == <<"E", "r", "r", "o", "r", " ", "g", "e", "n", "e", "r", "a", "t", "i", "n", "g", " ", "s", "u", "m", "m", "a", "r", "y", ":", " ">>
S_ErrConnecting == <<"E", "r", "r", "o", "r", " ", "c", "o", "n", "n", "e", "c", "t", "i", "n", "g", " ", "t", "o", " ", "O", "l", "l", "a", "m", "a", ":", " ">>
S_TokenPlaceholder == <<"y", "o", "u", "r", "_", "t", "o", "k", "e", "n", "_", "h", "e", "r", "e">>
S_YourDomain == <<"y", "o", "u", "r", "d", "o", "m", "a", "i", "n">>
S_IssueType == <<"I", "s", "s", "u", "e", " ", "T", "y", "p", "e">>
S_IssueKey == <<"I", "s", "s", "u", "e", " ", "k", "e", "y">>
S_Summary == <<"S", "u", "m", "m", "a", "r", "y">>
S_Status == <<"S", "t", "a", "t", "u", "s">>
S_ProjectSummary == <<"P", "r", "o", "j", "e", "c", "t", " ", "S", "u", "m", "m", "a", "r", "y">>
S_TitleSuffix == <<":", " ", "T", "a", "s", "k", "s", " ", "c", "o", "m", "p", "l", "e", "t", "e", "d", " ", "o", "r", " ", "t", "o", " ", "b", "e", " ", "c", "o", "n", "t", "i", "n", "u", "e", "d", " ", "i", "n", " ", "t", "h", "e", " ", "u", "p", "c", "o", "m", "i", "n", "g", " ", "m", "o", "n", "t", "h", ".">>
S_ProjectName == <<"I", "n", "d", "e", "x", " ", "o", "f", " ", "N", "C", "I", " ", "S", "t", "u", "d", "i", "e", "s">>
S_NoneRepr == <<"N", "o", "n", "e">>

\* ---------------------------------------------------------- Python values
None == [t |-> "NoneType"]
PyStr(s) == [t |-> "str", v |-> s]
PyDict(f) == [t |-> "dict", v |-> f]
PyList(q) == [t |-> "list", v |-> q]
EmptyDict == PyDict([k \in {} |-> None])
EmptyList == PyList(<< >>)

\* A call's outcome: a returned value, or an exception with its message.
Ok(v) == [exc |-> "none", val |-> v, msg |-> S_Empty]
Raise(e, m) == [exc |-> e, val |-> None, msg |-> m]

\* The exceptions below requests.exceptions.RequestException.
RequestExceptions == {"ConnectionError", "Timeout", "RequestsJSONDecodeError"}
IsRequestException(e) == e \in RequestExceptions

\* d.get(k, default) on a dict d.
DictGet(d, k, default) == IF k \in DOMAIN d.v THEN d.v[k] ELSE default

\* bool(x): None and the empty str, list and dict are falsy.
Truthy(x) ==
    CASE x.t = "NoneType" -> FALSE
      [] x.t = "str" -> Len(x.v) > 0
      [] x.t = "list" -> Len(x.v) > 0
      [] x.t = "dict" -> DOMAIN x.v # {}
      [] OTHER -> TRUE

\* `sub in s` on two strings.
Contains(s, sub) ==
    \E i \in 0..(Len(s) - Len(sub)) : SubSeq(s, i + 1, i + Len(sub)) = sub

\* str.strip(): the characters str.isspace() accepts, dropped at both ends.
Whitespace == {" ", "\n", "\t"}
RECURSIVE LStrip(_)
LStrip(s) ==
    IF s # << >> /\ Head(s) \in Whitespace THEN LStrip(Tail(s)) ELSE s
RECURSIVE RStrip(_)
RStrip(s) ==
    IF s # << >> /\ s[Len(s)] \in Whitespace
    THEN RStrip(SubSeq(s, 1, Len(s) - 1))
    ELSE s
\* Mutant: lstrip() in place of strip().
Strip_LeftOnly(s) == LStrip(s)
Strip(s) == RStrip(LStrip(s))

\* f"{x}": a str as it is, None as "None".
Format(x) == IF x.t = "str" THEN x.v ELSE S_NoneRepr

\* ------------------------------------------------------- validate_config
\* Mutant: the JIRA_URL check left out.
validate_config_NoUrlCheck(cfg) ==
    IF ~Truthy(cfg.JIRA_TOKEN) \/ cfg.JIRA_TOKEN = PyStr(S_TokenPlaceholder)
    THEN Raise("ValueError", <<"JIRA_TOKEN">>)
    ELSE IF ~Truthy(cfg.JQL)
    THEN Raise("ValueError", <<"JIRA_JQL">>)
    ELSE Ok(None)

validate_config(cfg) ==
    IF ~Truthy(cfg.JIRA_TOKEN) \/ cfg.JIRA_TOKEN = PyStr(S_TokenPlaceholder)
    THEN Raise("ValueError", <<"JIRA_TOKEN">>)
    ELSE IF ~Truthy(cfg.JIRA_URL) \/ Contains(cfg.JIRA_URL.v, S_YourDomain)
    THEN Raise("ValueError", <<"JIRA_URL">>)
    ELSE IF ~Truthy(cfg.JQL)
    THEN Raise("ValueError", <<"JIRA_JQL">>)
    ELSE Ok(None)

\* ----------------------------------------------------------- fetch_issues
\* len(x) is defined on str, list and dict.
HasLen(x) == x.t \in {"str", "list", "dict"}

\* Mutant: the status code is not looked at.
fetch_issues_try_NoStatusCheck(o) ==
    IF o.kind = "raise" THEN Raise(o.exc, o.msg)
    ELSE IF o.body.json = "invalid" THEN Raise(o.body.exc, S_Empty)
    ELSE LET data == o.body.val IN
         IF data.t # "dict" THEN Raise("AttributeError", S_Empty)
         ELSE LET issues == DictGet(data, "issues", EmptyList) IN
              IF ~HasLen(issues) THEN Raise("TypeError", S_Empty)
              ELSE Ok(issues)

\* The try block of fetch_issues, given what requests.get did: o.kind is
\* "raise" (o.exc raised by requests.get) or "response" (o.status, o.body;
\* o.body.json is "invalid" when response.json() raises o.body.exc).
fetch_issues_try(o) ==
    IF o.kind = "raise" THEN Raise(o.exc, o.msg)
    ELSE IF o.status # 200 THEN Raise("Exception", o.text)
    ELSE IF o.body.json = "invalid" THEN Raise(o.body.exc, S_Empty)
    ELSE LET data == o.body.val IN
         IF data.t # "dict" THEN Raise("AttributeError", S_Empty)
         ELSE LET issues == DictGet(data, "issues", EmptyList) IN
              IF ~HasLen(issues) THEN Raise("TypeError", S_Empty)
              ELSE Ok(issues)

\* Both except clauses print and return [].
fetch_issues(o) ==
    LET r == fetch_issues_try(o) IN
    IF r.exc = "none" THEN r
    ELSE IF IsRequestException(r.exc) THEN Ok(EmptyList)
    ELSE Ok(EmptyList)

\* ------------------------------------------------- summarize_with_ollama
\* Mutant: result.get("response", "") in place of result.get("response", {}).
summarize_with_ollama_try_EmptyDefault(o) ==
    IF o.kind = "raise" THEN Raise(o.exc, o.msg)
    ELSE IF o.status # 200 THEN Ok(PyStr(S_ErrGenerating \o o.text))
    ELSE IF o.body.json = "invalid" THEN Raise(o.body.exc, S_Empty)
    ELSE LET result == o.body.val IN
         IF result.t # "dict" THEN Raise("AttributeError", S_Empty)
         ELSE LET summary == DictGet(result, "response", PyStr(S_Empty)) IN
              IF summary.t # "str" THEN Raise("AttributeError", S_Empty)
              ELSE Ok(PyStr(Strip(summary.v)))

\* The try block of summarize_with_ollama, given what requests.post did.
summarize_with_ollama_try(o) ==
    IF o.kind = "raise" THEN Raise(o.exc, o.msg)
    ELSE IF o.status # 200 THEN Ok(PyStr(S_ErrGenerating \o o.text))
    ELSE IF o.body.json = "invalid" THEN Raise(o.body.exc, S_Empty)
    ELSE LET result == o.body.val IN
         IF result.t # "dict" THEN Raise("AttributeError", S_Empty)
         ELSE LET summary == DictGet(result, "response", EmptyDict) IN
              IF summary.t # "str" THEN Raise("AttributeError", S_Empty)
              ELSE Ok(PyStr(Strip(summary.v)))

\* Mutant: no except clause, the exception leaves the method.
summarize_with_ollama_NoCatch(o) == summarize_with_ollama_try(o)

\* The two except clauses turn an exception into an error string.
summarize_with_ollama(o) ==
    LET r == summarize_with_ollama_try(o) IN
    IF r.exc = "none" THEN r
    ELSE IF IsRequestException(r.exc) THEN Ok(PyStr(S_ErrConnecting \o r.msg))
    ELSE Ok(PyStr(S_ErrGenerating \o r.msg))

\* ------------------------------------------- run(): the normalization step
\* One pass of the loop body: issue.get (line 196), then the four fields of
\* issue_data.  x.get on anything but a dict is an AttributeError.
NormalizeIssue(issue) ==
    IF issue.t # "dict" THEN Raise("AttributeError", S_Empty)
    ELSE LET fields == DictGet(issue, "fields", EmptyDict) IN
    IF fields.t # "dict" THEN Raise("AttributeError", S_Empty)
    ELSE LET issuetype == DictGet(fields, "issuetype", PyStr(S_Unknown))
             status == DictGet(fields, "status", EmptyDict) IN
    IF issuetype.t # "dict" THEN Raise("AttributeError", S_Empty)
    ELSE IF status.t # "dict" THEN Raise("AttributeError", S_Empty)
    ELSE Ok(PyDict(
           [k \in {"issue type", "issue key", "summary", "status"} |->
              CASE k = "issue type" -> DictGet(issuetype, "name", PyStr(S_Unknown))
                [] k = "issue key" -> DictGet(issue, "key", PyStr(S_NoKey))
                [] k = "summary" -> DictGet(fields, "summary", PyStr(S_NoSummary))
                [] k = "status" -> DictGet(status, "name", PyStr(S_Unknown))]))

\* ------------------------------------------------ generate_word_document
HeaderRow == <<S_IssueType, S_IssueKey, S_Summary, S_Status>>

\* Mutant: the key column filled from "summary".
RowValues_KeyFromSummary(issue) ==
    <<DictGet(issue, "issue type", PyStr(S_NA)),
      DictGet(issue, "summary", PyStr(S_NoSummary)),
      DictGet(issue, "summary", PyStr(S_NoSummary)),
      DictGet(issue, "status", PyStr(S_NoStatus))>>

\* What the loop body reads from one issue, in column order.
RowValues(issue) ==
    <<DictGet(issue, "issue type", PyStr(S_NA)),
      DictGet(issue, "issue key", PyStr(S_NoSummary)),
      DictGet(issue, "summary", PyStr(S_NoSummary)),
      DictGet(issue, "status", PyStr(S_NoStatus))>>

\* add_row() appends a row of four empty cells; the four assignments to
\* cell.text then run in column order, and the first value that is not a str
\* raises TypeError in the document library, leaving the later cells empty.
AddRow(table, issue) ==
    IF issue.t # "dict" THEN [table |-> Append(table, [c \in 1..4 |-> S_Empty]),
                              exc |-> "AttributeError"]
    ELSE LET vals == RowValues(issue)
             bad == {c \in 1..4 : vals[c].t # "str"}
             stop == IF bad = {} THEN 5 ELSE CHOOSE c \in bad : \A d \in bad : c <= d
             row == [c \in 1..4 |-> IF c < stop THEN vals[c].v ELSE S_Empty]
         IN [table |-> Append(table, row),
             exc |-> IF bad = {} THEN "none" ELSE "TypeError"]

\* for issue in issues: rows are added in list order until one raises.
RECURSIVE AddRows(_, _)
AddRows(table, issues) ==
    IF issues = << >> THEN [table |-> table, exc |-> "none"]
    ELSE LET r == AddRow(table, Head(issues)) IN
         IF r.exc # "none" THEN r ELSE AddRows(r.table, Tail(issues))

\* The file at the output path: absent, or holding a document, or left
\* partly written by a save that failed.
NoFile == [state |-> "absent", doc |-> << >>]
FileOf(doc) == [state |-> "document", doc |-> <<doc>>]
PartialFile == [state |-> "partial", doc |-> << >>]

\* doc.save(filename): writes the whole document over the file, or raises
\* before the file is opened, or raises part way through the write.
SaveOutcomes == {"ok", "raise_before_open", "raise_mid_write"}
Save(doc, file, save) ==
    CASE save = "ok" -> [file |-> FileOf(doc), exc |-> "none"]
      [] save = "raise_before_open" -> [file |-> file, exc |-> "OSError"]
      [] save = "raise_mid_write" -> [file |-> PartialFile, exc |-> "OSError"]

\* The whole method: the try block up to the first exception, which the
\* except clause prints and swallows.  doc is the document as built in memory.
generate_word_document(issues, ai_summary, project_name, file, save) ==
    LET title == project_name \o S_TitleSuffix
        rows == AddRows(<<HeaderRow>>, issues)
        doc0 == [title |-> title, alignment |-> 1, table |-> rows.table, tail |-> << >>]
        doc1 == [doc0 EXCEPT !.tail =
                   <<[kind |-> "heading2", text |-> S_ProjectSummary],
                     [kind |-> "paragraph", text |-> Format(ai_summary)],
                     [kind |-> "page_break", text |-> S_Empty]>>]
    IN IF rows.exc # "none"
       THEN [doc |-> doc0, file |-> file, save_called |-> FALSE, error |-> rows.exc]
       ELSE LET w == Save(doc1, file, save) IN
            [doc |-> doc1, file |-> w.file, save_called |-> TRUE, error |-> w.exc]

\* ------------------------------------------------------------- the inputs
S_Bug == <<"B", "u", "g">>
S_Task == <<"T", "a", "s", "k">>
S_K1 == <<"P", "-", "1">>
S_K2 == <<"P", "-", "2">>
S_Fix == <<"F", "i", "x">>
S_Add == <<"A", "d", "d">>
S_Open == <<"O", "p", "e", "n">>
S_Done == <<"D", "o", "n", "e">>
S_Msg == <<"e", "r", "r">>
S_TokenReal == <<"t", "o", "k">>
S_UrlTemplate == <<"h", "t", "t", "p", "s", ":", "/", "/", "y", "o", "u", "r", "d", "o", "m", "a", "i", "n", ".", "n", "e", "t">>
S_UrlReal == <<"h", "t", "t", "p", "s", ":", "/", "/", "j", "i", "r", "a">>
S_JqlReal == <<"A", "N", "D", " ", "s", "t", "a", "t", "u", "s", "=", "D", "o", "n", "e">>
S_JqlTemplate == <<"y", "o", "u", "r", "_", "j", "q", "l", "_", "h", "e", "r", "e">>

\* A key left out of a JSON object.
Absent == [t |-> "absent"]
Dict(rec) == PyDict([k \in {j \in DOMAIN rec : rec[j].t # "absent"} |-> rec[k]])

SeqsUpTo(S, n) == UNION {[1..k -> S] : k \in 0..n}

\* Every shape of a raw issue: each of key, fields, issuetype, summary, status
\* and the two name fields absent, null or present.
NameOf(s) == {Absent, None, PyStr(s)}
Nested(s) == {Absent, None} \cup {Dict([name |-> n]) : n \in NameOf(s)}
FieldsShapes ==
    {Absent, None} \cup
    {Dict([issuetype |-> it, summary |-> su, status |-> st]) :
        it \in Nested(S_Bug), su \in NameOf(S_Fix), st \in Nested(S_Open)}
RawIssueShapes ==
    {Dict([key |-> k, fields |-> f]) : k \in NameOf(S_K1), f \in FieldsShapes}
    \cup {None, PyStr(S_K1)}

FullIssue(k, ty, su, st) ==
    Dict([key |-> PyStr(k),
          fields |-> Dict([issuetype |-> Dict([name |-> PyStr(ty)]),
                           summary |-> PyStr(su),
                           status |-> Dict([name |-> PyStr(st)])])])

\* The raw issues of a whole run: two complete ones, one with every optional
\* part left out, one with a null key, one without issuetype.
RunIssues ==
    {FullIssue(S_K1, S_Bug, S_Fix, S_Open),
     FullIssue(S_K2, S_Task, S_Add, S_Done),
     Dict([key |-> Absent, fields |-> Dict([issuetype |-> EmptyDict, summary |-> Absent, status |-> Absent])]),
     Dict([key |-> None, fields |-> Dict([issuetype |-> Dict([name |-> PyStr(S_Bug)]), summary |-> PyStr(S_Fix), status |-> Dict([name |-> PyStr(S_Open)])])]),
     Dict([key |-> PyStr(S_K1), fields |-> Dict([issuetype |-> Absent, summary |-> PyStr(S_Fix), status |-> Dict([name |-> PyStr(S_Open)])])])}

Response(status, text, body) == [kind |-> "response", status |-> status, text |-> text, body |-> body]
Raised(e, m) == [kind |-> "raise", exc |-> e, msg |-> m]
Json(v) == [json |-> "valid", val |-> v, exc |-> "none"]
\* response.json() on a body that is not JSON raises a RequestException
\* subclass or a plain ValueError, depending on the installed requests.
NotJson == {[json |-> "invalid", val |-> None, exc |-> e] : e \in {"RequestsJSONDecodeError", "ValueError"}}

Raises == {Raised(e, m) : e \in {"ConnectionError", "Timeout", "Exception"}, m \in {S_Empty, S_Msg}}

\* What requests.get can do in fetch_issues.
JiraBodies ==
    NotJson \cup
    {Json(v) : v \in {EmptyList, EmptyDict, Dict([issues |-> None]),
                      Dict([issues |-> EmptyDict]), Dict([issues |-> PyStr(S_K1)])}}
    \cup {Json(Dict([issues |-> PyList(q)])) : q \in SeqsUpTo(RunIssues, MaxIssues)}
JiraOutcomes ==
    Raises \cup
    {Response(st, S_Msg, b) : st \in {200}, b \in JiraBodies} \cup
    {Response(st, S_Msg, b) : st \in {401, 500},
        b \in NotJson \cup {Json(Dict([issues |-> PyList(<<FullIssue(S_K1, S_Bug, S_Fix, S_Open)>>)]))}}

\* What requests.post can do in summarize_with_ollama, for the texts T the
\* model may generate.
Chars == {" ", "\n", "a"}
OllamaBodies(T) ==
    NotJson \cup
    {Json(v) : v \in {EmptyList, EmptyDict, Dict([response |-> None]), Dict([response |-> EmptyDict])}}
    \cup {Json(Dict([response |-> PyStr(s)])) : s \in T}
OllamaOutcomes(T) ==
    Raises \cup
    {Response(200, S_Empty, b) : b \in OllamaBodies(T)} \cup
    {Response(st, x, Json(Dict([response |-> PyStr(<<"a">>)]))) : st \in {404, 500}, x \in {S_Empty, S_Msg}}
RunTexts == {S_Empty, <<" ", "a", " ">>, <<"a", " ", "a">>}

\* A normalized issue as run() builds it.
Normalized(ty, k, su, st) ==
    PyDict([f \in {"issue type", "issue key", "summary", "status"} |->
              CASE f = "issue type" -> ty
                [] f = "issue key" -> k
                [] f = "summary" -> su
                [] f = "status" -> st])
\* The issue lists generate_word_document is tried on: normalized issues, one
\* with a null field, and one dict that lacks the "issue key" entry.
DocIssues ==
    {Normalized(PyStr(S_Bug), PyStr(S_K1), PyStr(S_Fix), PyStr(S_Open)),
     Normalized(PyStr(S_Task), PyStr(S_K2), PyStr(S_Add), PyStr(S_Done)),
     Normalized(PyStr(S_Bug), None, PyStr(S_Fix), PyStr(S_Open)),
     PyDict([f \in {"issue type", "summary", "status"} |-> PyStr(S_Open)])}
DocSummaries == {PyStr(<<"a">>), PyStr(S_ErrGenerating \o S_Msg)}

\* A report left at the output path by an earlier run.
OldDoc == [title |-> S_ProjectName \o S_TitleSuffix, alignment |-> 1,
           table |-> <<HeaderRow>>, tail |-> << >>]
Files == {NoFile, FileOf(OldDoc)}

\* The environment: each setting unset, empty, the template's value, or real.
Configs ==
    [JIRA_TOKEN : {None, PyStr(S_Empty), PyStr(S_TokenPlaceholder), PyStr(S_TokenReal)},
     JIRA_URL : {None, PyStr(S_Empty), PyStr(S_UrlTemplate), PyStr(S_UrlReal)},
     JQL : {None, PyStr(S_Empty), PyStr(S_JqlTemplate), PyStr(S_JqlReal)}]

\* ------------------------------------------------------------------ state
VARIABLES
    env,              \* JIRA_TOKEN, JIRA_URL, JQL as read at import
    pc,               \* where main() is
    run_state,        \* run(): "not_called", "running", "returned", "raised"
    error,            \* the exception main()'s except clause caught
    issues,           \* run(): what fetch_issues returned
    issue_summaries,  \* run(): the normalized issues
    issues_string,    \* run(): the text handed to the summarizer
    ai_summary,       \* run(): what summarize_with_ollama returned
    doc,              \* the document generate_word_document built
    file,             \* the file at the report's path
    calls,            \* the GET, the POST, the builder call and the save, in order
    jira, ollama,     \* what the two services did in this run
    unit              \* one method applied to one input

vars == <<env, pc, run_state, error, issues, issue_summaries, issues_string,
          ai_summary, doc, file, calls, jira, ollama, unit>>
runVars == <<env, pc, run_state, error, issues, issue_summaries, issues_string,
             ai_summary, doc, file, calls, jira, ollama>>

NoDoc == [title |-> S_Empty, alignment |-> 0, table |-> << >>, tail |-> << >>]
NoOutcome == [kind |-> "none"]
NoUnit == [fn |-> "none"]

\* --------------------------------------------------------------- run()
S_ProjectEq == <<"p", "r", "o", "j", "e", "c", "t", " ", "=", " ", "'">>
S_LineKey == <<"I", "s", "s", "u", "e", " ", "K", "e", "y", ":", " ">>
S_LineSummary == <<",", " ", "S", "u", "m", "m", "a", "r", "y", ":", " ">>
S_LineStatus == <<",", " ", "S", "t", "a", "t", "u", "s", ":", " ">>

\* The jql parameter fetch_issues sends.
JqlParam(project_name, jql) == S_ProjectEq \o project_name \o <<"'", " ">> \o jql

\* for issue in issues: a list yields its elements, a str its characters.
Iterate(x) ==
    CASE x.t = "list" -> x.v
      [] x.t = "str" -> [i \in 1..Len(x.v) |-> PyStr(<<x.v[i]>>)]
      [] OTHER -> << >>

\* The loop of run(): issue_summaries grows until an issue raises.
RECURSIVE NormalizeAll(_, _)
NormalizeAll(acc, rest) ==
    IF rest = << >> THEN [exc |-> "none", list |-> acc]
    ELSE LET r == NormalizeIssue(Head(rest)) IN
         IF r.exc # "none" THEN [exc |-> r.exc, list |-> acc]
         ELSE NormalizeAll(Append(acc, r.val), Tail(rest))

IssueLine(d) ==
    S_LineKey \o Format(d.v["issue key"]) \o S_LineSummary \o Format(d.v["summary"])
      \o S_LineStatus \o Format(d.v["status"])
\* "\n".join(lines)
RECURSIVE JoinLines(_)
JoinLines(q) ==
    IF q = << >> THEN S_Empty
    ELSE IF Len(q) = 1 THEN IssueLine(q[1])
    ELSE IssueLine(q[1]) \o <<"\n">> \o JoinLines(Tail(q))

\* Mutant: `if issues is None` in place of `if not issues`.
NoIssues_IsNone(x) == x.t = "NoneType"

\* `if not issues`
NoIssues(x) == ~Truthy(x)

\* main(): JiraToDocxAutomation(...) runs validate_config.
Construct ==
    /\ pc = "main"
    /\ LET r == validate_config(env) IN
       IF r.exc # "none"
       THEN /\ error' = r.exc
            /\ pc' = "exit"
            /\ run_state' = run_state
       ELSE /\ error' = error
            /\ pc' = "run_fetch"
            /\ run_state' = "running"
    /\ UNCHANGED <<env, issues, issue_summaries, issues_string, ai_summary, doc,
                   file, calls, jira, ollama, unit>>

\* run(), step 1: fetch_issues and the `if not issues` return.
RunFetch ==
    /\ pc = "run_fetch"
    /\ \E o \in JiraOutcomes :
         LET r == fetch_issues(o) IN
         /\ jira' = o
         /\ calls' = Append(calls, [op |-> "GET", arg |-> JqlParam(S_ProjectName, env.JQL.v)])
         /\ IF r.exc # "none"
            THEN /\ issues' = issues
                 /\ run_state' = "raised"
                 /\ error' = r.exc
                 /\ pc' = "exit"
            ELSE /\ issues' = r.val
                 /\ error' = error
                 /\ IF NoIssues(r.val)
                    THEN pc' = "exit" /\ run_state' = "returned"
                    ELSE pc' = "run_normalize" /\ run_state' = run_state
    /\ UNCHANGED <<env, issue_summaries, issues_string, ai_summary, doc, file,
                   ollama, unit>>

\* run(), step 2: the normalization loop and the flattened text.
RunNormalize ==
    /\ pc = "run_normalize"
    /\ LET r == NormalizeAll(<< >>, Iterate(issues)) IN
       /\ issue_summaries' = r.list
       /\ IF r.exc # "none"
          THEN /\ run_state' = "raised"
               /\ error' = r.exc
               /\ pc' = "exit"
               /\ issues_string' = issues_string
          ELSE /\ issues_string' = JoinLines(r.list)
               /\ pc' = "run_summarize"
               /\ UNCHANGED <<run_state, error>>
    /\ UNCHANGED <<env, issues, ai_summary, doc, file, calls, jira, ollama, unit>>

\* Mutant: the POST is sent again when the summarizer reports an error.
RunSummarize_Retry ==
    /\ pc = "run_summarize"
    /\ \E o \in OllamaOutcomes(RunTexts) :
         LET r == summarize_with_ollama(o) IN
         /\ ollama' = o
         /\ calls' = Append(calls, [op |-> "POST", arg |-> issues_string])
         /\ ai_summary' = r.val
         /\ pc' = IF o.kind = "raise" THEN "run_summarize" ELSE "run_generate"
    /\ UNCHANGED <<env, run_state, error, issues, issue_summaries, issues_string,
                   doc, file, jira, unit>>

\* run(), step 3: summarize_with_ollama(issues_string).
RunSummarize ==
    /\ pc = "run_summarize"
    /\ \E o \in OllamaOutcomes(RunTexts) :
         LET r == summarize_with_ollama(o) IN
         /\ ollama' = o
         /\ calls' = Append(calls, [op |-> "POST", arg |-> issues_string])
         /\ IF r.exc # "none"
            THEN /\ ai_summary' = ai_summary
                 /\ run_state' = "raised"
                 /\ error' = r.exc
                 /\ pc' = "exit"
            ELSE /\ ai_summary' = r.val
                 /\ pc' = "run_generate"
                 /\ UNCHANGED <<run_state, error>>
    /\ UNCHANGED <<env, issues, issue_summaries, issues_string, doc, file, jira, unit>>

\* run(), step 4: generate_word_document(issue_summaries, ai_summary, ...).
RunGenerate ==
    /\ pc = "run_generate"
    /\ \E save \in SaveOutcomes :
         LET g == generate_word_document(issue_summaries, ai_summary, S_ProjectName, file, save) IN
         /\ doc' = g.doc
         /\ file' = g.file
         /\ calls' = calls \o <<[op |-> "BUILD", arg |-> <<issue_summaries, ai_summary>>]>>
                       \o (IF g.save_called THEN <<[op |-> "SAVE", arg |-> save]>> ELSE << >>)
    /\ pc' = "exit"
    /\ run_state' = "returned"
    /\ UNCHANGED <<env, error, issues, issue_summaries, issues_string, ai_summary,
                   jira, ollama, unit>>

RunInit ==
    /\ env \in Configs
    /\ file \in Files
    /\ pc = "main"
    /\ run_state = "not_called"
    /\ error = "none"
    /\ issues = EmptyList
    /\ issue_summaries = << >>
    /\ issues_string = S_Empty
    /\ ai_summary = None
    /\ doc = NoDoc
    /\ calls = << >>
    /\ jira = NoOutcome
    /\ ollama = NoOutcome

Init == RunInit /\ unit = NoUnit

Next == Construct \/ RunFetch \/ RunNormalize \/ RunSummarize \/ RunGenerate

Spec == Init /\ [][Next]_vars

\* ------------------------------------------- each method on its own inputs
Pending(fn, arg) == [fn |-> fn, arg |-> arg, called |-> FALSE, ret |-> None]

UnitInit ==
    /\ \/ \E x \in RawIssueShapes : unit = Pending("normalize", x)
       \/ \E o \in JiraOutcomes : unit = Pending("fetch_issues", o)
       \/ \E o \in OllamaOutcomes(SeqsUpTo(Chars, MaxStrLen)) :
            unit = Pending("summarize_with_ollama", o)
       \/ \E q \in SeqsUpTo(DocIssues, MaxIssues), s \in DocSummaries,
             f \in Files, w \in SaveOutcomes :
            unit = Pending("generate_word_document",
                           [issues |-> q, ai_summary |-> s, file |-> f, save |-> w])
    /\ env = [JIRA_TOKEN |-> PyStr(S_TokenReal), JIRA_URL |-> PyStr(S_UrlReal), JQL |-> PyStr(S_JqlReal)]
    /\ file = NoFile
    /\ pc = "unit"
    /\ run_state = "not_called"
    /\ error = "none"
    /\ issues = EmptyList
    /\ issue_summaries = << >>
    /\ issues_string = S_Empty
    /\ ai_summary = None
    /\ doc = NoDoc
    /\ calls = << >>
    /\ jira = NoOutcome
    /\ ollama = NoOutcome

Return(r) == unit' = [unit EXCEPT !.called = TRUE, !.ret = r] /\ UNCHANGED runVars

CallNormalize ==
    /\ unit.fn = "normalize" /\ ~unit.called
    /\ Return(NormalizeIssue(unit.arg))

CallFetch ==
    /\ unit.fn = "fetch_issues" /\ ~unit.called
    /\ Return(fetch_issues(unit.arg))

CallSummarize ==
    /\ unit.fn = "summarize_with_ollama" /\ ~unit.called
    /\ Return(summarize_with_ollama(unit.arg))

CallGenerate ==
    /\ unit.fn = "generate_word_document" /\ ~unit.called
    /\ Return(generate_word_document(unit.arg.issues, unit.arg.ai_summary,
                                   S_ProjectName, unit.arg.file, unit.arg.save))

UnitNext == CallNormalize \/ CallFetch \/ CallSummarize \/ CallGenerate

UnitSpec == UnitInit /\ [][UnitNext]_vars

\* ------------------------------------------------------------- the claims
FieldNames == <<"issue type", "issue key", "summary", "status">>

\* The value at a path of keys in a raw issue; Absent when a key on the way is
\* missing or the value on the way is not an object.
RECURSIVE Path(_, _)
Path(x, keys) ==
    IF keys = << >> THEN x
    ELSE IF x.t = "dict" /\ Head(keys) \in DOMAIN x.v THEN Path(x.v[Head(keys)], Tail(keys))
    ELSE Absent
SourcePath(f) ==
    CASE f = "issue type" -> <<"fields", "issuetype", "name">>
      [] f = "issue key" -> <<"key">>
      [] f = "summary" -> <<"fields", "summary">>
      [] f = "status" -> <<"fields", "status", "name">>
SourceField(issue, f) == Path(issue, SourcePath(f))
SpecDefault(f) ==
    CASE f = "issue type" -> S_Unknown
      [] f = "issue key" -> S_NoKey
      [] f = "summary" -> S_NoSummary
      [] f = "status" -> S_NoStatus
\* A raw issue in which each of the four source fields is a string or missing
\* (the field itself, or an object on the way to it), and nothing is null.
PrefixesOf(q) == {SubSeq(q, 1, n) : n \in 1..Len(q)}
MissingOrString(issue) ==
    /\ issue.t = "dict"
    /\ \A i \in 1..4 :
         /\ SourceField(issue, FieldNames[i]).t \in {"absent", "str"}
         /\ \A pre \in PrefixesOf(SourcePath(FieldNames[i])) :
              Len(pre) < Len(SourcePath(FieldNames[i])) => Path(issue, pre).t \in {"absent", "dict"}

Normalized1 == unit.fn = "normalize" /\ unit.called
Fetched1 == unit.fn = "fetch_issues" /\ unit.called
Summarized1 == unit.fn = "summarize_with_ollama" /\ unit.called

\* C1: normalizing a raw issue in which any subset of issuetype.name, key,
\* summary, status.name is missing yields a record whose four fields are all
\* present and non-null: "Unknown", "No key", "No summary", "No status" for a
\* missing source field, the source value unchanged for a present one.
C1_NormalizeDefaults ==
    (Normalized1 /\ MissingOrString(unit.arg)) =>
        /\ unit.ret.exc = "none"
        /\ unit.ret.val.t = "dict"
        /\ DOMAIN unit.ret.val.v = {"issue type", "issue key", "summary", "status"}
        /\ \A i \in 1..4 :
             LET f == FieldNames[i]
                 src == SourceField(unit.arg, f)
             IN unit.ret.val.v[f] = PyStr(IF src.t = "str" THEN src.v ELSE SpecDefault(f))

\* C2: once validate_config has passed, main() never catches an exception:
\* run() returns normally whatever the fetch, the raw issues, the summarizer
\* and the document write do; the only exception main() sees is the
\* ValueError of a failed validation.
C2_OnlyValidationRaises ==
    /\ run_state # "raised"
    /\ error # "none" => (error = "ValueError" /\ run_state = "not_called")

\* C3 (as stated): summarize_with_ollama returns a non-empty string for every
\* HTTP outcome and never raises.
C3_NeverEmpty ==
    Summarized1 =>
        /\ unit.ret.exc = "none"
        /\ unit.ret.val.t = "str"
        /\ unit.ret.val.v # << >>

\* A 200 response whose JSON object has a string "response" s.
StringResponse(o, s) ==
    /\ o.kind = "response" /\ o.status = 200 /\ o.body.json = "valid"
    /\ o.body.val.t = "dict" /\ "response" \in DOMAIN o.body.val.v
    /\ o.body.val.v["response"] = PyStr(s)
HasStringResponse(o) ==
    /\ o.kind = "response" /\ o.status = 200 /\ o.body.json = "valid"
    /\ o.body.val.t = "dict" /\ "response" \in DOMAIN o.body.val.v
    /\ o.body.val.v["response"].t = "str"
ResponseText(o) == o.body.val.v["response"].v
Blank(s) == \A i \in 1..Len(s) : s[i] \in {" ", "\n", "\t"}

\* C3 (amended): summarize_with_ollama never raises and returns a string, never
\* null; the string is empty exactly when the response is a 200 whose
\* "response" is a string that is empty or all whitespace.
C3_EmptyOnlyOnBlankResponse ==
    Summarized1 =>
        /\ unit.ret.exc = "none"
        /\ unit.ret.val.t = "str"
        /\ (unit.ret.val.v = << >>) <=>
             (HasStringResponse(unit.arg) /\ Blank(ResponseText(unit.arg)))

C3_Witness ==
    /\ Summarized1
    /\ StringResponse(unit.arg, <<" ", "\n">>)
    /\ unit.ret.val = PyStr(<< >>)

\* C4: fetch_issues never raises; a 200 response whose JSON object has an
\* "issues" array returns that array, same length and order, and an empty
\* list if "issues" is absent; a non-200 status, a network failure or any
\* other exception returns an empty list.
C4_FetchContract ==
    Fetched1 =>
        LET o == unit.arg
            okBody == o.kind = "response" /\ o.status = 200 /\ o.body.json = "valid"
                        /\ o.body.val.t = "dict"
            hasIssues == okBody /\ "issues" \in DOMAIN o.body.val.v
        IN /\ unit.ret.exc = "none"
           /\ (hasIssues /\ o.body.val.v["issues"].t = "list") =>
                /\ unit.ret.val.t = "list"
                /\ Len(unit.ret.val.v) = Len(o.body.val.v["issues"].v)
                /\ \A i \in 1..Len(unit.ret.val.v) :
                     unit.ret.val.v[i] = o.body.val.v["issues"].v[i]
           /\ (okBody /\ ~hasIssues) => unit.ret.val = EmptyList
           /\ (o.kind = "raise" \/ o.status # 200 \/ o.body.json = "invalid"
                 \/ o.body.val.t # "dict"
                 \/ (hasIssues /\ o.body.val.v["issues"].t = "NoneType"))
                => unit.ret.val = EmptyList

C4_Witness ==
    /\ Fetched1
    /\ unit.arg.kind = "response" /\ unit.arg.status = 200
    /\ unit.ret.val.t = "list" /\ Len(unit.ret.val.v) = 2
    /\ unit.ret.val.v[1] # unit.ret.val.v[2]

Ops == [i \in 1..Len(calls) |-> calls[i].op]
Called(op) == \E i \in 1..Len(calls) : calls[i].op = op
FetchReturned == jira # NoOutcome
\* doc.save ran and returned.
Saved == \E i \in 1..Len(calls) : calls[i] = [op |-> "SAVE", arg |-> "ok"]

\* C5: when fetch_issues returns an empty sequence, run() returns normally
\* with no inference POST, no report builder call and the report file as it
\* was.
C5_EmptyFetchStops ==
    (FetchReturned /\ ~Truthy(issues)) =>
        /\ pc = "exit" /\ run_state = "returned" /\ error = "none"
        /\ Ops = <<"GET">>
        /\ doc = NoDoc
        /\ file \in Files

C5_Witness ==
    /\ FetchReturned /\ jira.kind = "response" /\ jira.status = 500
    /\ issues = EmptyList
    /\ pc = "exit" /\ run_state = "returned"
    /\ file = FileOf(OldDoc)

Unset(x) == x = None \/ x = PyStr(S_Empty)
\* What a failed construction looks like: nothing was called, nothing was
\* written, and main() caught a ValueError before run().
Aborted ==
    /\ calls = << >>
    /\ file \in Files
    /\ run_state = "not_called"
    /\ pc # "main" => (pc = "exit" /\ error = "ValueError")

\* C6 (as stated): if any of the token, the URL and the query filter is
\* missing or holds a placeholder value, construction fails with an error
\* and no GET, POST or document write happens.
C6_MissingOrPlaceholderAborts ==
    (\/ Unset(env.JIRA_TOKEN) \/ env.JIRA_TOKEN = PyStr(S_TokenPlaceholder)
     \/ Unset(env.JIRA_URL) \/ env.JIRA_URL = PyStr(S_UrlTemplate)
     \/ Unset(env.JQL) \/ env.JQL = PyStr(S_JqlTemplate))
    => Aborted

\* C6 (amended): if the token is missing or "your_token_here", or the URL is
\* missing or contains "yourdomain", or the query filter is missing,
\* construction fails with an error and no GET, POST or document write
\* happens; a query filter is not checked for a placeholder value.
C6_CheckedSettingsAbort ==
    (\/ Unset(env.JIRA_TOKEN) \/ env.JIRA_TOKEN = PyStr(S_TokenPlaceholder)
     \/ Unset(env.JIRA_URL) \/ Contains(env.JIRA_URL.v, S_YourDomain)
     \/ Unset(env.JQL))
    => Aborted

C6_Witness ==
    /\ env.JIRA_TOKEN = PyStr(S_TokenReal)
    /\ env.JIRA_URL = PyStr(S_UrlTemplate)
    /\ env.JQL = PyStr(S_JqlReal)
    /\ pc = "exit" /\ error = "ValueError" /\ calls = << >>

AllStrings(q) == \A i \in 1..Len(q) : \A j \in 1..4 : q[i].v[FieldNames[j]].t = "str"
CellsOf(d) == [j \in 1..4 |-> d.v[FieldNames[j]].v]

\* C7: given N normalized issues the report's table has N+1 rows, the header
\* {Issue Type, Issue key, Summary, Status} and then issue i's four fields in
\* row i+1 in column order; the data rows are as many as the issues the
\* fetcher returned and in their order.
C7_TableRows ==
    (Called("BUILD") /\ AllStrings(issue_summaries)) =>
        LET n == Len(issue_summaries) IN
        /\ Len(doc.table) = n + 1
        /\ doc.table[1] = <<S_IssueType, S_IssueKey, S_Summary, S_Status>>
        /\ \A i \in 1..n : doc.table[i + 1] = CellsOf(issue_summaries[i])
        /\ issues.t = "list" /\ n = Len(issues.v)
        /\ \A i \in 1..n : \A j \in 1..4 :
             LET src == SourceField(issues.v[i], FieldNames[j]) IN
             src.t = "str" => doc.table[i + 1][j] = src.v
        /\ Saved => (file.state = "document" /\ file.doc[1].table = doc.table)

C7_Witness ==
    /\ Called("BUILD")
    /\ Len(issue_summaries) = 2
    /\ doc.table = <<HeaderRow, <<S_Task, S_K2, S_Add, S_Done>>, <<S_Bug, S_K1, S_Fix, S_Open>>>>
    /\ file = FileOf(doc)

\* C8 (as stated): a 200 response with a string "response" returns it with the
\* surrounding whitespace trimmed; a non-200 status, a network failure or any
\* other exception returns a string containing "Error generating summary".
IsTrimOf(t, s) ==
    \E a \in 0..Len(s) : \E b \in a..Len(s) :
        /\ t = SubSeq(s, a + 1, b)
        /\ \A k \in 1..a : s[k] \in {" ", "\n", "\t"}
        /\ \A k \in (b + 1)..Len(s) : s[k] \in {" ", "\n", "\t"}
        /\ t # << >> => (t[1] \notin {" ", "\n", "\t"} /\ t[Len(t)] \notin {" ", "\n", "\t"})
S_ErrorGeneratingSummary == <<"E", "r", "r", "o", "r", " ", "g", "e", "n", "e", "r", "a", "t", "i", "n", "g", " ", "s", "u", "m", "m", "a", "r", "y">>
S_ErrorConnectingToOllama == <<"E", "r", "r", "o", "r", " ", "c", "o", "n", "n", "e", "c", "t", "i", "n", "g", " ", "t", "o", " ", "O", "l", "l", "a", "m", "a", ":", " ">>
StartsWith(s, pre) == Len(s) >= Len(pre) /\ SubSeq(s, 1, Len(pre)) = pre
NetworkFailure(o) == o.kind = "raise" /\ o.exc \in {"ConnectionError", "Timeout"}
OtherException(o) == o.kind = "raise" /\ o.exc = "Exception"
Non200(o) == o.kind = "response" /\ o.status # 200

C8_TrimOrErrorGenerating ==
    Summarized1 =>
        /\ unit.ret.exc = "none" /\ unit.ret.val.t = "str"
        /\ HasStringResponse(unit.arg) => IsTrimOf(unit.ret.val.v, ResponseText(unit.arg))
        /\ (Non200(unit.arg) \/ NetworkFailure(unit.arg) \/ OtherException(unit.arg))
             => Contains(unit.ret.val.v, S_ErrorGeneratingSummary)

\* C8 (amended): a 200 response with a string "response" returns it with the
\* surrounding whitespace trimmed; a non-200 status returns "Error generating
\* summary: " and the response text, an exception that is not a network
\* failure returns "Error generating summary: " and its message, and a network
\* failure returns "Error connecting to Ollama: " and its message.
C8_TrimOrErrorByKind ==
    Summarized1 =>
        /\ unit.ret.exc = "none" /\ unit.ret.val.t = "str"
        /\ HasStringResponse(unit.arg) => IsTrimOf(unit.ret.val.v, ResponseText(unit.arg))
        /\ Non200(unit.arg) =>
             unit.ret.val.v = S_ErrorGeneratingSummary \o <<":", " ">> \o unit.arg.text
        /\ OtherException(unit.arg) =>
             unit.ret.val.v = S_ErrorGeneratingSummary \o <<":", " ">> \o unit.arg.msg
        /\ NetworkFailure(unit.arg) =>
             unit.ret.val.v = S_ErrorConnectingToOllama \o unit.arg.msg

C8_Witness ==
    /\ Summarized1
    /\ unit.arg.kind = "raise" /\ unit.arg.exc = "ConnectionError" /\ unit.arg.msg = S_Msg
    /\ StartsWith(unit.ret.val.v, S_ErrorConnectingToOllama)
    /\ ~Contains(unit.ret.val.v, S_ErrorGeneratingSummary)

SummarizerFailed == ollama # NoOutcome /\ (ollama.kind = "raise" \/ ollama.status # 200)
IsErrorString(x) ==
    /\ x.t = "str"
    /\ StartsWith(x.v, S_ErrorGeneratingSummary) \/ StartsWith(x.v, S_ErrorConnectingToOllama)
BuildCalls == {i \in 1..Len(calls) : calls[i].op = "BUILD"}

\* C9: when the fetcher returned at least one issue and the summarizer fails,
\* run() still calls the report builder exactly once, and the summary
\* paragraph of the report is the error string the summarizer returned.
C9_SummaryErrorNonFatal ==
    SummarizerFailed =>
        /\ Truthy(issues)
        /\ IsErrorString(ai_summary)
        /\ run_state # "raised"
        /\ pc \in {"run_generate", "exit"}
        /\ pc = "exit" =>
             /\ run_state = "returned"
             /\ Cardinality(BuildCalls) = 1
             /\ \A i \in BuildCalls : calls[i].arg[2] = ai_summary
             /\ doc.tail # << >> => doc.tail[2] = [kind |-> "paragraph", text |-> ai_summary.v]
             /\ Saved =>
                  /\ file.state = "document"
                  /\ file.doc[1].tail[2] = [kind |-> "paragraph", text |-> ai_summary.v]

C9_Witness ==
    /\ SummarizerFailed /\ ollama.kind = "response" /\ ollama.status = 500
    /\ ollama.text = S_Msg
    /\ pc = "exit" /\ Cardinality(BuildCalls) = 1
    /\ Saved /\ file.state = "document"
    /\ file.doc[1].tail[2].text = S_ErrorGeneratingSummary \o <<":", " ">> \o S_Msg

IsPrefix(p, q) == Len(p) <= Len(q) /\ SubSeq(q, 1, Len(p)) = p
RunEnded == pc = "exit" /\ run_state \in {"returned", "raised"}

\* C10: in every run the stages go in order and at most once each, without
\* retry: one GET, then at most one POST, then at most one document write;
\* the POST comes only after the GET returned a non-empty list and the
\* normalization finished, and the document is built only after the
\* summarizer returned, from the normalized issues and the returned text.
C10_StagesInOrder ==
    /\ IsPrefix(Ops, <<"GET", "POST", "BUILD", "SAVE">>)
    /\ RunEnded => Called("GET")
    /\ Called("POST") =>
         /\ FetchReturned /\ Truthy(issues)
         /\ Len(issue_summaries) = Len(Iterate(issues))
         /\ \A i \in 1..Len(issue_summaries) :
              DOMAIN issue_summaries[i].v = {"issue type", "issue key", "summary", "status"}
         /\ ollama # NoOutcome
    /\ Called("BUILD") =>
         /\ ai_summary.t = "str"
         /\ calls[3].arg = <<issue_summaries, ai_summary>>
         /\ doc.tail # << >> => doc.tail[2].text = ai_summary.v

C10_Witness ==
    /\ Ops = <<"GET", "POST", "BUILD", "SAVE">>
    /\ pc = "exit" /\ run_state = "returned"
    /\ file = FileOf(doc)

=============================================================================
